---- MODULE Spec2Model ----
(***************************************************************************)
(* Smart Waste Management System: the bin-level and alert logic of the     *)
(* Express server (src/unnamed/part_000) over the MySQL schema and seed    *)
(* data (src/script.js, lines 237-388).                                    *)
(*                                                                         *)
(* The store is the three tables the handlers write: Bins (current_level), *)
(* Alerts and Waste_Collection.  Every handler is an async function whose  *)
(* awaits are single store statements, so a request is a small process     *)
(* whose steps are those statements; requests interleave at the awaits.    *)
(*                                                                         *)
(* Weights are FLOAT kilograms in the source; the model counts them in     *)
(* tenths of a kilogram so that the seed weights (15.5, 12.3, ...) and     *)
(* fractional submissions are integers, and computes the level in exact    *)
(* rational arithmetic.                                                    *)
(***************************************************************************)
EXTENDS Integers, Sequences, FiniteSets, TLC

VARIABLES level, alerts, collections, req, pre, seen

vars == <<level, alerts, collections, req, pre, seen>>

-----------------------------------------------------------------------------
(* Bounds of the model                                                     *)

\* requests issued in the concurrent specifications (Spec, DashSpec)
MaxRequests == 2

\* requests issued, one after the other, in the serial specifications
\* (SerialSpec, FnSpec, ViewSpec, FaultSpec)
MaxSerialRequests == 3

-----------------------------------------------------------------------------
(* Schema and seed data (src/script.js)                                    *)

\* INSERT INTO Bins ...: capacity of bins 1..6
SeedCapacity == <<50, 60, 55, 40, 50, 70>>

\* INSERT INTO Bins ...: current_level of bins 1..6
SeedLevel == <<45, 85, 30, 90, 65, 20>>

BinIds == DOMAIN SeedCapacity

\* INSERT INTO Staff ...: three rows, AUTO_INCREMENT ids 1..3
StaffIds == {1, 2, 3}

\* INSERT INTO Alerts ...: alert_id is the position (AUTO_INCREMENT)
SeedAlerts ==
  << [bin_id |-> 2, alert_type |-> "Full", status |-> "Pending"],
     [bin_id |-> 4, alert_type |-> "Full", status |-> "Pending"] >>

\* INSERT INTO Waste_Collection ...: weights in tenths of a kilogram
SeedCollections ==
  << [bin_id |-> 1, collected_by |-> 1, collection_date |-> "2025-11-08", waste_weight |-> 155],
     [bin_id |-> 2, collected_by |-> 2, collection_date |-> "2025-11-08", waste_weight |-> 200],
     [bin_id |-> 3, collected_by |-> 1, collection_date |-> "2025-11-07", waste_weight |-> 123],
     [bin_id |-> 5, collected_by |-> 2, collection_date |-> "2025-11-07", waste_weight |-> 187],
     [bin_id |-> 6, collected_by |-> 1, collection_date |-> "2025-11-06", waste_weight |-> 250] >>

\* Bins.current_level: CHECK (current_level >= 0 AND current_level <= 100)
LevelCheckHighOnly(l) == l <= 100

LevelCheck(l) == l >= 0 /\ l <= 100

-----------------------------------------------------------------------------
(* Request bodies                                                          *)

\* A JSON value of the waste_weight field: a number, a numeric string (what
\* the form of script.js submits) or nothing (undefined, null, "").
\* v is the numeric value in tenths of a kilogram.
Num(v) == [t |-> "num", v |-> v]
Str(v) == [t |-> "str", v |-> v]
None == [t |-> "none", v |-> 0]

\* JavaScript's !x for such a value: undefined, "" and the number 0 are
\* falsy; a non-empty string, "0" included, is truthy.
Falsy(x) == x.t = "none" \/ (x.t = "num" /\ x.v = 0)

\* Identifiers (bin_id, collected_by, :id) are positive integers; 0 stands
\* for an absent or empty field, which is falsy like the number 0.
FalsyId(id) == id = 0

\* if (!bin_id || !collected_by || !waste_weight) return 400
MissingFields(body) ==
  FalsyId(body.bin_id) \/ FalsyId(body.collected_by) \/ Falsy(body.waste_weight)

\* Math.round of the rational num/den (den > 0): floor(x + 1/2), so a half
\* goes towards plus infinity.
MathRound(num, den) == (2 * num + den) \div (2 * den)

Min(a, b) == IF a <= b THEN a ELSE b

\* levelIncrease = (waste_weight / capacity) * 100;
\* newLevel = Math.min(100, Math.round(current_level + levelIncrease)).
\* w is in tenths of a kilogram: current + (w/10)/cap*100 = (current*cap + 10*w)/cap.
NewLevel(current, w, cap) == Min(100, MathRound(current * cap + 10 * w, cap))

-----------------------------------------------------------------------------
(* Store statements                                                        *)

\* SELECT capacity, current_level FROM Bins WHERE bin_id = ?
SelectBin(b) == IF b \in BinIds THEN <<[capacity |-> SeedCapacity[b], current_level |-> level[b]]>> ELSE <<>>

\* SELECT bin_id FROM Alerts WHERE alert_id = ?
SelectAlertFirst(id) == IF id \in DOMAIN alerts THEN <<alerts[id]>> ELSE <<alerts[1]>>

SelectAlert(id) == IF id \in DOMAIN alerts THEN <<alerts[id]>> ELSE <<>>

\* SELECT * FROM Alerts WHERE bin_id = ? AND status = "Pending" AND alert_type = "Full"
ExistingAlertResolved(as, b) ==
  {k \in DOMAIN as : as[k].bin_id = b /\ as[k].status = "Resolved" /\ as[k].alert_type = "Full"}

ExistingAlertAnyStatus(as, b) ==
  {k \in DOMAIN as : as[k].bin_id = b /\ as[k].alert_type = "Full"}

ExistingAlert(as, b) ==
  {k \in DOMAIN as : as[k].bin_id = b /\ as[k].status = "Pending" /\ as[k].alert_type = "Full"}

\* checkAndGenerateAlert: if (currentLevel >= 80)
NeedsAlertAbove(currentLevel) == currentLevel > 80

NeedsAlert(currentLevel) == currentLevel >= 80

\* INSERT INTO Alerts (bin_id, alert_type, status) VALUES (?, "Full", "Pending")
InsertAlertReopen(as, b) ==
  IF ExistingAlertResolved(as, b) = {}
    THEN Append(as, [bin_id |-> b, alert_type |-> "Full", status |-> "Pending"])
    ELSE [k \in DOMAIN as |->
            IF k \in ExistingAlertResolved(as, b) THEN [as[k] EXCEPT !.status = "Pending"]
            ELSE as[k]]

InsertAlert(as, b) == Append(as, [bin_id |-> b, alert_type |-> "Full", status |-> "Pending"])

\* UPDATE Alerts SET status = "Resolved" WHERE alert_id = ?
ResolveAllAlerts(as, id) == [k \in DOMAIN as |-> [as[k] EXCEPT !.status = "Resolved"]]

ResolveAlert(as, id) == [as EXCEPT ![id].status = "Resolved"]

\* UPDATE Bins SET current_level = 0, last_updated = NOW() WHERE bin_id = ?
ResetAllBins(lv, b) == [x \in DOMAIN lv |-> 0]

ResetBinSkipped(lv, b) == lv

ResetBin(lv, b) == [lv EXCEPT ![b] = 0]

\* INSERT INTO Waste_Collection (...) VALUES (?, ?, CURDATE(), ?)
InsertCollectionSwapped(cs, body) ==
  Append(cs, [bin_id |-> body.collected_by, collected_by |-> body.bin_id,
              collection_date |-> "CURDATE", waste_weight |-> body.waste_weight.v])

InsertCollection(cs, body) ==
  Append(cs, [bin_id |-> body.bin_id, collected_by |-> body.collected_by,
              collection_date |-> "CURDATE", waste_weight |-> body.waste_weight.v])

\* the store as a whole
Store == [level |-> level, alerts |-> alerts, collections |-> collections]

-----------------------------------------------------------------------------
(* Read side                                                               *)

\* getBinStatus (part_000), applied by GET /bins to every bin
getBinStatusRedFrom80(currentLevel) ==
  IF currentLevel < 50 THEN "Green"
  ELSE IF currentLevel >= 50 /\ currentLevel < 80 THEN "Yellow"
  ELSE "Red"

getBinStatus(currentLevel) ==
  IF currentLevel < 50 THEN "Green"
  ELSE IF currentLevel >= 50 /\ currentLevel <= 80 THEN "Yellow"
  ELSE "Red"

\* getStatusClass (script.js), applied by renderBins to bin.current_level
getStatusClass(lvl) ==
  IF lvl > 80 THEN "danger"
  ELSE IF lvl >= 50 THEN "warning"
  ELSE "good"

RECURSIVE SumLevels(_, _)
SumLevels(lv, n) == IF n = 0 THEN 0 ELSE lv[n] + SumLevels(lv, n - 1)

\* GET /dashboard/stats, first query: COUNT(*), the three SUM(CASE ...) and
\* AVG(current_level) over Bins; the average is kept as sum over count
BinStats(lv) ==
  [total_bins |-> Cardinality(DOMAIN lv),
   full_bins |-> Cardinality({b \in DOMAIN lv : lv[b] >= 80}),
   medium_bins |-> Cardinality({b \in DOMAIN lv : lv[b] >= 50 /\ lv[b] < 80}),
   empty_bins |-> Cardinality({b \in DOMAIN lv : lv[b] < 50}),
   avg_fill_level |-> [sum |-> SumLevels(lv, Len(lv)), count |-> Len(lv)]]

\* second query: COUNT(*) and SUM(CASE WHEN status = 'Pending' ...) over Alerts
AlertStats(as) ==
  [total_alerts |-> Len(as),
   pending_alerts |-> Cardinality({k \in DOMAIN as : as[k].status = "Pending"})]

\* third query: COUNT(*) FROM Waste_Collection WHERE collection_date = CURDATE();
\* the server runs on a day later than the seed's dates
CollectionStats(cs) ==
  [today_collections |-> Cardinality({k \in DOMAIN cs : cs[k].collection_date = "CURDATE"})]

\* what the three queries return on one state of the store
StatsOf(st) ==
  [bins |-> BinStats(st.level), alerts |-> AlertStats(st.alerts),
   collections |-> CollectionStats(st.collections)]

NoStats == StatsOf([level |-> <<>>, alerts |-> <<>>, collections |-> <<>>])

-----------------------------------------------------------------------------
(* Requests                                                                *)

NoBody == [bin_id |-> 0, collected_by |-> 0, waste_weight |-> None]

\* a request: its handler, its position (the statement it awaits), its
\* inputs, the handler's locals and the HTTP status it answered with
NewRequest(kind) ==
  [kind |-> kind, pc |-> "done", body |-> NoBody, alertId |-> 0,
   capacity |-> 0, current_level |-> 0, newLevel |-> 0, binId |-> 0, status |-> 0,
   statuses |-> <<>>, stats |-> NoStats, failed |-> FALSE]

InFlight == {i \in DOMAIN req : req[i].pc # "done"}

\* a request arrives: at most `limit` in all, and with `serial` only when
\* no other request is in flight
Arrive(limit, serial) ==
  /\ Len(req) < limit
  /\ serial => InFlight = {}
  /\ pre' = Store

\* the request bodies and alert ids the model submits
Weights == {Num(100), Num(175), Num(600), Num(-300), Str(0)}

TargetBins == {1, 2}

WasteBodies ==
  {[bin_id |-> b, collected_by |-> 1, waste_weight |-> w] : b \in TargetBins, w \in Weights}
  \cup {[bin_id |-> 7, collected_by |-> 1, waste_weight |-> Num(100)],
        [bin_id |-> 0, collected_by |-> 1, waste_weight |-> Num(100)],
        [bin_id |-> 1, collected_by |-> 0, waste_weight |-> Num(100)],
        [bin_id |-> 1, collected_by |-> 1, waste_weight |-> None],
        [bin_id |-> 1, collected_by |-> 1, waste_weight |-> Num(0)],
        [bin_id |-> 1, collected_by |-> 9, waste_weight |-> Num(100)]}

AlertIds == 1 .. (Len(alerts) + 1)

\* app.post('/waste'): validation, then the SELECT of the bin and the
\* synchronous computation of newLevel that follows it
PostWaste(body, limit, serial) ==
  /\ Arrive(limit, serial)
  /\ LET r == [NewRequest("waste") EXCEPT !.body = body]
         bin == SelectBin(body.bin_id)
     IN  IF MissingFields(body)
           THEN req' = Append(req, [r EXCEPT !.status = 400])
           ELSE IF Len(bin) = 0
             THEN req' = Append(req, [r EXCEPT !.status = 404])
             ELSE req' = Append(req,
                    [r EXCEPT !.pc = "insert",
                              !.capacity = bin[1].capacity,
                              !.current_level = bin[1].current_level,
                              !.newLevel = NewLevel(bin[1].current_level, body.waste_weight.v,
                                                    bin[1].capacity)])
  /\ UNCHANGED <<level, alerts, collections>>

\* INSERT INTO Waste_Collection; a collected_by that is no Staff row breaks
\* the foreign key and the handler's catch answers 500
WasteInsert(i) ==
  /\ req[i].kind = "waste" /\ req[i].pc = "insert"
  /\ IF req[i].body.collected_by \in StaffIds /\ req[i].body.bin_id \in BinIds
       THEN /\ collections' = InsertCollection(collections, req[i].body)
            /\ req' = [req EXCEPT ![i].pc = "update"]
       ELSE /\ req' = [req EXCEPT ![i].pc = "done", ![i].status = 500]
            /\ UNCHANGED collections
  /\ UNCHANGED <<level, alerts, pre>>

\* UPDATE Bins SET current_level = newLevel; a level the CHECK refuses is an
\* error (500); then checkAndGenerateAlert(bin_id, newLevel) starts
WasteUpdate(i) ==
  /\ req[i].kind = "waste" /\ req[i].pc = "update"
  /\ IF LevelCheck(req[i].newLevel)
       THEN /\ level' = [level EXCEPT ![req[i].body.bin_id] = req[i].newLevel]
            /\ IF NeedsAlert(req[i].newLevel)
                 THEN req' = [req EXCEPT ![i].pc = "alertSelect"]
                 ELSE req' = [req EXCEPT ![i].pc = "done", ![i].status = 200]
       ELSE /\ req' = [req EXCEPT ![i].pc = "done", ![i].status = 500]
            /\ UNCHANGED level
  /\ UNCHANGED <<alerts, collections, pre>>

\* checkAndGenerateAlert: the SELECT of a pending "Full" alert of the bin
AlertSelect(i) ==
  /\ req[i].kind = "waste" /\ req[i].pc = "alertSelect"
  /\ IF ExistingAlert(alerts, req[i].body.bin_id) = {}
       THEN req' = [req EXCEPT ![i].pc = "alertInsert"]
       ELSE req' = [req EXCEPT ![i].pc = "done", ![i].status = 200]
  /\ UNCHANGED <<level, alerts, collections, pre>>

\* checkAndGenerateAlert: the INSERT of the alert, then the 200 response
AlertInsert(i) ==
  /\ req[i].kind = "waste" /\ req[i].pc = "alertInsert"
  /\ alerts' = InsertAlert(alerts, req[i].body.bin_id)
  /\ req' = [req EXCEPT ![i].pc = "done", ![i].status = 200]
  /\ UNCHANGED <<level, collections, pre>>

\* app.put('/alerts/:id'): the SELECT of the alert
PutAlert(id, limit, serial) ==
  /\ Arrive(limit, serial)
  /\ LET r == [NewRequest("resolve") EXCEPT !.alertId = id]
         alert == SelectAlert(id)
     IN  IF Len(alert) = 0
           THEN req' = Append(req, [r EXCEPT !.status = 404])
           ELSE req' = Append(req, [r EXCEPT !.pc = "updateAlert", !.binId = alert[1].bin_id])
  /\ UNCHANGED <<level, alerts, collections>>

\* UPDATE Alerts SET status = "Resolved"
ResolveUpdate(i) ==
  /\ req[i].kind = "resolve" /\ req[i].pc = "updateAlert"
  /\ alerts' = ResolveAlert(alerts, req[i].alertId)
  /\ req' = [req EXCEPT ![i].pc = "resetBin"]
  /\ UNCHANGED <<level, collections, pre>>

\* UPDATE Bins SET current_level = 0, then the 200 response
ResolveReset(i) ==
  /\ req[i].kind = "resolve" /\ req[i].pc = "resetBin"
  /\ level' = ResetBin(level, req[i].binId)
  /\ req' = [req EXCEPT ![i].pc = "done", ![i].status = 200]
  /\ UNCHANGED <<alerts, collections, pre>>

\* app.get('/bins'): one SELECT, then getBinStatus on every row
GetBins(limit, serial) ==
  /\ Arrive(limit, serial)
  /\ req' = Append(req, [NewRequest("bins") EXCEPT
                           !.status = 200,
                           !.statuses = [b \in BinIds |-> getBinStatus(level[b])]])
  /\ UNCHANGED <<level, alerts, collections>>

\* app.get('/dashboard/stats'): the query over Bins
GetStats(limit, serial) ==
  /\ Arrive(limit, serial)
  /\ req' = Append(req, [NewRequest("stats") EXCEPT
                           !.pc = "alertStats", !.stats.bins = BinStats(level)])
  /\ UNCHANGED <<level, alerts, collections>>

\* app.get('/dashboard/stats'): the query over Alerts
StatsAlerts(i) ==
  /\ req[i].kind = "stats" /\ req[i].pc = "alertStats"
  /\ req' = [req EXCEPT ![i].pc = "recentCollections", ![i].stats.alerts = AlertStats(alerts)]
  /\ UNCHANGED <<level, alerts, collections, pre>>

\* app.get('/dashboard/stats'): the query over Waste_Collection, then the response
StatsCollections(i) ==
  /\ req[i].kind = "stats" /\ req[i].pc = "recentCollections"
  /\ req' = [req EXCEPT ![i].pc = "done", ![i].status = 200,
                         ![i].stats.collections = CollectionStats(collections)]
  /\ UNCHANGED <<level, alerts, collections, pre>>

\* A store statement throws (connection lost, timeout).  In the handlers the
\* catch answers 500; in checkAndGenerateAlert the catch only logs, and
\* app.post('/waste') goes on to answer 200.  A statement that throws has
\* changed nothing.
StatementFails(i) ==
  /\ req[i].kind \in {"waste", "resolve"} /\ req[i].pc # "done"
  /\ req' = [req EXCEPT ![i].pc = "done", ![i].failed = TRUE,
                         ![i].status = IF req[i].pc \in {"alertSelect", "alertInsert"}
                                         THEN 200 ELSE 500]
  /\ UNCHANGED <<level, alerts, collections, pre>>

\* the first statement of a handler throws: the SELECT of the bin
PostWasteFails(body, limit, serial) ==
  /\ Arrive(limit, serial)
  /\ ~MissingFields(body)
  /\ req' = Append(req, [NewRequest("waste") EXCEPT !.body = body, !.status = 500,
                                                    !.failed = TRUE])
  /\ UNCHANGED <<level, alerts, collections>>

\* the first statement of a handler throws: the SELECT of the alert
PutAlertFails(id, limit, serial) ==
  /\ Arrive(limit, serial)
  /\ req' = Append(req, [NewRequest("resolve") EXCEPT !.alertId = id, !.status = 500,
                                                      !.failed = TRUE])
  /\ UNCHANGED <<level, alerts, collections>>

\* History: while a GET /dashboard/stats is in flight, what its three queries
\* would return on each state the store goes through, from the state it
\* arrived in on.  It is the last conjunct of every step.
StatsInFlight(rq) == {i \in DOMAIN rq : rq[i].kind = "stats" /\ rq[i].pc # "done"}

Observe ==
  seen' = IF StatsInFlight(req) = {} /\ StatsInFlight(req') # {}
            THEN {StatsOf([level |-> level', alerts |-> alerts', collections |-> collections'])}
          ELSE IF StatsInFlight(req) # {}
            THEN seen \cup {StatsOf([level |-> level', alerts |-> alerts',
                                     collections |-> collections'])}
          ELSE seen

\* The handlers run alone, start to end, on a store st: what every
\* interleaving is compared with.
RunWaste(st, body) ==
  IF MissingFields(body) \/ body.bin_id \notin BinIds \/ body.collected_by \notin StaffIds
    THEN st
    ELSE LET b == body.bin_id
             newLevel == NewLevel(st.level[b], body.waste_weight.v, SeedCapacity[b])
             inserted == [st EXCEPT !.collections = InsertCollection(@, body)]
             updated == [inserted EXCEPT !.level[b] = newLevel]
         IN  IF ~LevelCheck(newLevel) THEN inserted
             ELSE IF NeedsAlert(newLevel) /\ ExistingAlert(updated.alerts, b) = {}
               THEN [updated EXCEPT !.alerts = InsertAlert(@, b)]
               ELSE updated

RunResolve(st, id) ==
  IF id \notin DOMAIN st.alerts THEN st
  ELSE [st EXCEPT !.alerts = ResolveAlert(@, id),
                  !.level = ResetBin(@, st.alerts[id].bin_id)]

Run(st, r) ==
  IF r.kind = "waste" THEN RunWaste(st, r.body)
  ELSE IF r.kind = "resolve" THEN RunResolve(st, r.alertId)
  ELSE st

-----------------------------------------------------------------------------
(* Specifications                                                          *)

Init ==
  /\ level = SeedLevel
  /\ alerts = SeedAlerts
  /\ collections = SeedCollections
  /\ req = <<>>
  /\ pre = [level |-> SeedLevel, alerts |-> SeedAlerts, collections |-> SeedCollections]
  /\ seen = {}

\* requests interleave at their store statements
Next ==
  \/ /\ \E body \in WasteBodies : PostWaste(body, MaxRequests, FALSE)
     /\ Observe
  \/ /\ \E id \in AlertIds : PutAlert(id, MaxRequests, FALSE)
     /\ Observe
  \/ /\ \E i \in DOMAIN req : WasteInsert(i)
     /\ Observe
  \/ /\ \E i \in DOMAIN req : WasteUpdate(i)
     /\ Observe
  \/ /\ \E i \in DOMAIN req : AlertSelect(i)
     /\ Observe
  \/ /\ \E i \in DOMAIN req : AlertInsert(i)
     /\ Observe
  \/ /\ \E i \in DOMAIN req : ResolveUpdate(i)
     /\ Observe
  \/ /\ \E i \in DOMAIN req : ResolveReset(i)
     /\ Observe

Spec == Init /\ [][Next]_vars

\* requests run one after the other
SerialNext ==
  \/ /\ \E body \in WasteBodies : PostWaste(body, MaxSerialRequests, TRUE)
     /\ Observe
  \/ /\ \E id \in AlertIds : PutAlert(id, MaxSerialRequests, TRUE)
     /\ Observe
  \/ /\ \E i \in DOMAIN req : WasteInsert(i)
     /\ Observe
  \/ /\ \E i \in DOMAIN req : WasteUpdate(i)
     /\ Observe
  \/ /\ \E i \in DOMAIN req : AlertSelect(i)
     /\ Observe
  \/ /\ \E i \in DOMAIN req : AlertInsert(i)
     /\ Observe
  \/ /\ \E i \in DOMAIN req : ResolveUpdate(i)
     /\ Observe
  \/ /\ \E i \in DOMAIN req : ResolveReset(i)
     /\ Observe

SerialSpec == Init /\ [][SerialNext]_vars

\* The level computation on every level 0..100: serial runs from the seed
\* in which a bin is first emptied (a resolve of its seed alert), then filled
\* by one collection of any weight up to its capacity, in tenths of a
\* kilogram, and then receives the collections under test.
FnWeights == {Num(100), Num(10), Num(8), Num(-10), Num(-2), Str(0), Num(1000)}

WasteRequests == {i \in DOMAIN req : req[i].kind = "waste"}

\* the bins the next collection may name: the bin emptied or filled so far
FnBins ==
  IF req = <<>> THEN BinIds
  ELSE IF WasteRequests = {} THEN {req[1].binId}
  ELSE {req[i].body.bin_id : i \in WasteRequests}

FnNext ==
  \/ /\ \E id \in DOMAIN SeedAlerts :
           req = <<>> /\ PutAlert(id, MaxSerialRequests, TRUE)
     /\ Observe
  \/ /\ WasteRequests = {} /\ InFlight = {}
     /\ \E b \in FnBins : \E n \in 1 .. (10 * SeedCapacity[b]) :
          PostWaste([bin_id |-> b, collected_by |-> 1, waste_weight |-> Num(n)],
                    MaxSerialRequests, TRUE)
     /\ Observe
  \/ /\ Cardinality(WasteRequests) <= 1 /\ InFlight = {}
     /\ \E b \in FnBins : \E w \in FnWeights :
          PostWaste([bin_id |-> b, collected_by |-> 1, waste_weight |-> w],
                    MaxSerialRequests, TRUE)
     /\ Observe
  \/ /\ \E i \in DOMAIN req : WasteInsert(i)
     /\ Observe
  \/ /\ \E i \in DOMAIN req : WasteUpdate(i)
     /\ Observe
  \/ /\ \E i \in DOMAIN req : AlertSelect(i)
     /\ Observe
  \/ /\ \E i \in DOMAIN req : AlertInsert(i)
     /\ Observe
  \/ /\ \E i \in DOMAIN req : ResolveUpdate(i)
     /\ Observe
  \/ /\ \E i \in DOMAIN req : ResolveReset(i)
     /\ Observe

FnSpec == Init /\ [][FnNext]_vars

\* The read endpoints on every level 0..100: serial runs from the seed in
\* which a seed alert may first be resolved, one collection of any weight up
\* to the bin's capacity fills a bin, and GET /bins and GET /dashboard/stats
\* are asked at any point.
ViewNext ==
  \/ /\ \E id \in DOMAIN SeedAlerts :
           req = <<>> /\ PutAlert(id, MaxSerialRequests, TRUE)
     /\ Observe
  \/ /\ WasteRequests = {} /\ InFlight = {}
     /\ \E b \in BinIds : \E n \in 1 .. (10 * SeedCapacity[b]) :
          PostWaste([bin_id |-> b, collected_by |-> 1, waste_weight |-> Num(n)],
                    MaxSerialRequests, TRUE)
     /\ Observe
  \/ /\ GetBins(MaxSerialRequests, TRUE)
     /\ Observe
  \/ /\ GetStats(MaxSerialRequests, TRUE)
     /\ Observe
  \/ /\ \E i \in DOMAIN req : StatsAlerts(i)
     /\ Observe
  \/ /\ \E i \in DOMAIN req : StatsCollections(i)
     /\ Observe
  \/ /\ \E i \in DOMAIN req : WasteInsert(i)
     /\ Observe
  \/ /\ \E i \in DOMAIN req : WasteUpdate(i)
     /\ Observe
  \/ /\ \E i \in DOMAIN req : AlertSelect(i)
     /\ Observe
  \/ /\ \E i \in DOMAIN req : AlertInsert(i)
     /\ Observe
  \/ /\ \E i \in DOMAIN req : ResolveUpdate(i)
     /\ Observe
  \/ /\ \E i \in DOMAIN req : ResolveReset(i)
     /\ Observe

ViewSpec == Init /\ [][ViewNext]_vars

\* serial requests over a store whose statements may throw; the collections
\* are valid ones of 10 kg and 60 kg
FaultBodies ==
  {[bin_id |-> b, collected_by |-> 1, waste_weight |-> w] :
     b \in TargetBins, w \in {Num(100), Num(600)}}

FaultNext ==
  \/ /\ \E body \in FaultBodies : PostWaste(body, MaxSerialRequests, TRUE)
     /\ Observe
  \/ /\ \E id \in AlertIds : PutAlert(id, MaxSerialRequests, TRUE)
     /\ Observe
  \/ /\ \E body \in FaultBodies : PostWasteFails(body, MaxSerialRequests, TRUE)
     /\ Observe
  \/ /\ \E id \in AlertIds : PutAlertFails(id, MaxSerialRequests, TRUE)
     /\ Observe
  \/ /\ \E i \in DOMAIN req : StatementFails(i)
     /\ Observe
  \/ /\ \E i \in DOMAIN req : WasteInsert(i)
     /\ Observe
  \/ /\ \E i \in DOMAIN req : WasteUpdate(i)
     /\ Observe
  \/ /\ \E i \in DOMAIN req : AlertSelect(i)
     /\ Observe
  \/ /\ \E i \in DOMAIN req : AlertInsert(i)
     /\ Observe
  \/ /\ \E i \in DOMAIN req : ResolveUpdate(i)
     /\ Observe
  \/ /\ \E i \in DOMAIN req : ResolveReset(i)
     /\ Observe

FaultSpec == Init /\ [][FaultNext]_vars

\* GET /dashboard/stats interleaved with the writing requests, statement by
\* statement
DashNext ==
  \/ /\ \E body \in WasteBodies : PostWaste(body, MaxRequests, FALSE)
     /\ Observe
  \/ /\ \E id \in AlertIds : PutAlert(id, MaxRequests, FALSE)
     /\ Observe
  \/ /\ GetStats(MaxRequests, FALSE)
     /\ Observe
  \/ /\ \E i \in DOMAIN req : StatsAlerts(i)
     /\ Observe
  \/ /\ \E i \in DOMAIN req : StatsCollections(i)
     /\ Observe
  \/ /\ \E i \in DOMAIN req : WasteInsert(i)
     /\ Observe
  \/ /\ \E i \in DOMAIN req : WasteUpdate(i)
     /\ Observe
  \/ /\ \E i \in DOMAIN req : AlertSelect(i)
     /\ Observe
  \/ /\ \E i \in DOMAIN req : AlertInsert(i)
     /\ Observe
  \/ /\ \E i \in DOMAIN req : ResolveUpdate(i)
     /\ Observe
  \/ /\ \E i \in DOMAIN req : ResolveReset(i)
     /\ Observe

DashSpec == Init /\ [][DashNext]_vars

-----------------------------------------------------------------------------
(* Properties                                                              *)

AlertTypes == {"Full", "Overflow", "Damage"}

PendingOf(as, b, t) ==
  {k \in DOMAIN as : as[k].bin_id = b /\ as[k].status = "Pending" /\ as[k].alert_type = t}

\* the request that arrived last; pre is the store as it was when it arrived
Last == req[Len(req)]

LastDone(kind) == Len(req) > 0 /\ Last.kind = kind /\ Last.pc = "done"

\* C1: in every reachable state, under any interleaving of the store
\* statements of concurrent POST /waste and PUT /alerts/:id requests, each
\* (bin, alert type) pair has at most one alert with status Pending.
AtMostOnePending ==
  \A b \in BinIds, t \in AlertTypes : Cardinality(PendingOf(alerts, b, t)) <= 1

\* C2: every bin's stored current_level is an integer in 0..100 in every
\* reachable state, whatever weights the requests carry.
LevelInRange == \A b \in BinIds : level[b] \in 0 .. 100

\* C2 witness: a collection whose sum exceeded 100 was stored as 100, and a
\* collection whose sum was negative was refused by the store.
LevelInRangeWitness ==
  /\ \E i \in DOMAIN req :
       /\ req[i].kind = "waste" /\ req[i].status = 200
       /\ MathRound(req[i].current_level * req[i].capacity + 10 * req[i].body.waste_weight.v,
                    req[i].capacity) > 100
       /\ level[req[i].body.bin_id] = 100
  /\ \E i \in DOMAIN req :
       req[i].kind = "waste" /\ req[i].status = 500 /\ req[i].newLevel < 0

\* C3: when two POST /waste requests for the same bin have both succeeded,
\* however their statements interleaved, the stored level is the one obtained
\* by applying both weights one after the other (in either order).
SequentialLevel(b, w1, w2) ==
  NewLevel(NewLevel(SeedLevel[b], w1, SeedCapacity[b]), w2, SeedCapacity[b])

NoLostUpdate ==
  (/\ Len(req) = 2
   /\ \A i \in {1, 2} : /\ req[i].kind = "waste" /\ req[i].pc = "done" /\ req[i].status = 200
                        /\ req[i].body.waste_weight.v > 0
   /\ req[1].body.bin_id = req[2].body.bin_id)
  => level[req[1].body.bin_id] \in
       {SequentialLevel(req[1].body.bin_id, req[1].body.waste_weight.v, req[2].body.waste_weight.v),
        SequentialLevel(req[1].body.bin_id, req[2].body.waste_weight.v, req[1].body.waste_weight.v)}

\* C4: two collections on the same bin, run one after the other with no
\* resolve in between and each leaving the level at 80 or more, leave exactly
\* one Pending "Full" alert: the second leaves the alerts unchanged.
TwoCrossings ==
  /\ Len(req) >= 2
  /\ LastDone("waste") /\ Last.status = 200 /\ level[Last.body.bin_id] >= 80
  /\ LET first == req[Len(req) - 1]
     IN  /\ first.kind = "waste" /\ first.status = 200
         /\ first.body.bin_id = Last.body.bin_id
         /\ pre.level[Last.body.bin_id] >= 80

DedupIdempotent ==
  TwoCrossings =>
    /\ alerts = pre.alerts
    /\ Cardinality(PendingOf(alerts, Last.body.bin_id, "Full")) = 1

\* C4 witness: the first of the two collections created the alert (bin 1
\* had none), and the second has completed.
DedupIdempotentWitness ==
  /\ TwoCrossings
  /\ Last.body.bin_id = 1
  /\ Len(alerts) = Len(SeedAlerts) + 1

\* C5: a successful resolve sets that alert to Resolved and the owning bin's
\* level to 0, and leaves every other bin's level, every other alert and all
\* collection events as they were.
ResolveFrame ==
  (LastDone("resolve") /\ Last.status = 200) =>
    LET id == Last.alertId
        b == pre.alerts[id].bin_id
    IN  /\ DOMAIN alerts = DOMAIN pre.alerts
        /\ alerts[id] = [pre.alerts[id] EXCEPT !.status = "Resolved"]
        /\ \A k \in DOMAIN alerts : k # id => alerts[k] = pre.alerts[k]
        /\ level[b] = 0
        /\ \A x \in BinIds : x # b => level[x] = pre.level[x]
        /\ collections = pre.collections

\* C5 witness: a Pending alert of a bin with a positive level was resolved
\* while another alert was Pending.
ResolveFrameWitness ==
  /\ LastDone("resolve") /\ Last.status = 200
  /\ pre.alerts[Last.alertId].status = "Pending"
  /\ pre.level[Last.binId] > 0
  /\ \E k \in DOMAIN alerts : k # Last.alertId /\ alerts[k].status = "Pending"
  /\ \E x \in BinIds : x # Last.binId /\ level[x] > 0

\* C6: resolving an alert that is already Resolved succeeds and leaves the
\* owning bin's level as it was.
ReResolveNoEffect ==
  (LastDone("resolve") /\ Last.status = 200
     /\ pre.alerts[Last.alertId].status = "Resolved") =>
    level[Last.binId] = pre.level[Last.binId]

\* C7: a POST /waste whose bin, staff or weight is missing or empty, or whose
\* weight is zero or negative, is answered 400 and changes nothing in the
\* store at any point of its run.
InvalidBody(body) ==
  \/ body.bin_id = 0
  \/ body.collected_by = 0
  \/ body.waste_weight.t = "none"
  \/ body.waste_weight.v <= 0

InvalidRejected ==
  (Len(req) > 0 /\ Last.kind = "waste" /\ InvalidBody(Last.body)) =>
    /\ Store = pre
    /\ Last.pc = "done" => Last.status = 400

\* C8: a POST /waste naming a bin that does not exist and a PUT /alerts/:id
\* naming an alert that does not exist are answered 404 and leave bins,
\* alerts and collection events as they were.
NamesMissingBin(r) ==
  r.kind = "waste" /\ ~MissingFields(r.body) /\ r.body.bin_id \notin BinIds

NamesMissingAlert(r, as) == r.kind = "resolve" /\ r.alertId \notin DOMAIN as

NotFoundNoEffect ==
  /\ \A i \in DOMAIN req :
       (NamesMissingBin(req[i]) \/ NamesMissingAlert(req[i], alerts))
         => req[i].pc = "done" /\ req[i].status = 404
  /\ (Len(req) > 0 /\ (NamesMissingBin(Last) \/ NamesMissingAlert(Last, pre.alerts)))
       => Last.pc = "done" /\ Last.status = 404 /\ Store = pre

\* C8 witness: both kinds of request have been answered 404, the later one
\* after the store had changed from the seed.
NotFoundNoEffectWitness ==
  /\ Len(req) >= 3
  /\ \E i \in DOMAIN req : NamesMissingBin(req[i]) /\ req[i].status = 404
  /\ NamesMissingAlert(Last, pre.alerts) /\ Last.status = 404
  /\ level # SeedLevel

\* C9: after a collection run alone completes with a level of 80 or more, a
\* Pending "Full" alert exists for the bin, created by it if none was
\* pending; after one that completes with a level below 80 the alerts are
\* unchanged.
AlertAfterCollection ==
  (LastDone("waste") /\ Last.status = 200) =>
    LET b == Last.body.bin_id
    IN  IF level[b] >= 80
          THEN /\ PendingOf(alerts, b, "Full") # {}
               /\ IF PendingOf(pre.alerts, b, "Full") = {}
                    THEN alerts = Append(pre.alerts,
                           [bin_id |-> b, alert_type |-> "Full", status |-> "Pending"])
                    ELSE alerts = pre.alerts
          ELSE alerts = pre.alerts

\* C9 witness: a collection brought a bin with no pending alert to exactly
\* 80 and the alert was created.
AlertAfterCollectionWitness ==
  /\ LastDone("waste") /\ Last.status = 200
  /\ level[Last.body.bin_id] = 80
  /\ PendingOf(pre.alerts, Last.body.bin_id, "Full") = {}
  /\ Len(alerts) = Len(pre.alerts) + 1

\* rounding half away from zero of the rational num/den (den > 0)
RoundHalfAway(num, den) ==
  IF num >= 0 THEN (2 * num + den) \div (2 * den)
              ELSE -((2 * (-num) + den) \div (2 * den))

\* C10: the level a successful collection stores is
\* min(100, round(current_level + weight / capacity * 100)), the rounding
\* being half away from zero and applied to the sum.
StoredLevelFormula ==
  (LastDone("waste") /\ Last.status = 200) =>
    LET b == Last.body.bin_id
    IN  level[b] = Min(100, RoundHalfAway(pre.level[b] * SeedCapacity[b]
                                            + 10 * Last.body.waste_weight.v,
                                          SeedCapacity[b]))

\* the same formula restricted to weights above zero, which the code
\* satisfies on every level: the two roundings differ on negative sums only
StoredLevelFormulaPositive ==
  (Len(req) > 0 /\ Last.body.waste_weight.v > 0) => StoredLevelFormula

LevelShown(n) == LastDone("bins") /\ \E b \in BinIds : level[b] = n

\* C12: across any sequence of operations, a step lowers a bin's level only
\* when it is the reset of that bin by a resolve of an alert on it, which
\* sets it to 0; no step of a recordCollection lowers a level.
OnlyResolveLowers ==
  [][\A b \in BinIds :
       level'[b] < level[b] =>
         /\ level'[b] = 0
         /\ \E i \in DOMAIN req :
              /\ req[i].kind = "resolve" /\ req[i].pc = "resetBin"
              /\ req[i].binId = b /\ req'[i].pc = "done"]_vars

\* the steps that lower a level otherwise are the updates of collections
\* with a negative weight
OnlyNegativeWeightLowers ==
  [][\A b \in BinIds :
       level'[b] < level[b] =>
         \/ /\ level'[b] = 0
            /\ \E i \in DOMAIN req :
                 /\ req[i].kind = "resolve" /\ req[i].pc = "resetBin"
                 /\ req[i].binId = b /\ req'[i].pc = "done"
         \/ \E i \in DOMAIN req :
              /\ req[i].kind = "waste" /\ req[i].pc = "update"
              /\ req[i].body.bin_id = b /\ req[i].body.waste_weight.v < 0]_vars

\* C13: after a resolve has left a bin with a Resolved alert and no Pending
\* one, a later recordCollection that brings the bin to 80 or above creates
\* a new Pending "Full" alert for the bin, under an id no earlier alert has,
\* and every earlier alert, the resolved one included, stays as it was.
NewAlertAfterResolve ==
  (/\ LastDone("waste") /\ Last.status = 200
   /\ level[Last.body.bin_id] >= 80
   /\ \E k \in DOMAIN pre.alerts :
        pre.alerts[k].bin_id = Last.body.bin_id /\ pre.alerts[k].status = "Resolved"
   /\ PendingOf(pre.alerts, Last.body.bin_id, "Full") = {})
  => /\ Len(alerts) = Len(pre.alerts) + 1
     /\ alerts[Len(alerts)] =
          [bin_id |-> Last.body.bin_id, alert_type |-> "Full", status |-> "Pending"]
     /\ Len(alerts) \notin DOMAIN pre.alerts
     /\ \A k \in DOMAIN pre.alerts : alerts[k] = pre.alerts[k]

\* bin 2's seed alert was resolved and a collection has filled the bin again
NewAlertAfterResolveWitness ==
  /\ LastDone("waste") /\ Last.status = 200
  /\ level[Last.body.bin_id] >= 80
  /\ \E k \in DOMAIN pre.alerts :
       pre.alerts[k].bin_id = Last.body.bin_id /\ pre.alerts[k].status = "Resolved"
  /\ PendingOf(pre.alerts, Last.body.bin_id, "Full") = {}
  /\ Cardinality(PendingOf(alerts, Last.body.bin_id, "Full")) = 1

\* C14: when a store statement of the alert check or insert throws after
\* recordCollection has written a level of 80 or above, the request does not
\* answer success: no POST /waste with a failed statement answers 200 in a
\* state where its bin stands at 80 or above without a Pending "Full" alert.
AlertFailureReported ==
  (/\ LastDone("waste") /\ Last.failed
   /\ Last.body.bin_id \in BinIds
   /\ level[Last.body.bin_id] >= 80
   /\ PendingOf(alerts, Last.body.bin_id, "Full") = {})
  => Last.status # 200

\* the tier a client status class stands for
TierOfClass(c) ==
  IF c = "danger" THEN "Red" ELSE IF c = "warning" THEN "Yellow" ELSE "Green"

\* C15: the tier counts of GET /dashboard/stats agree with getBinStatus on
\* every set of stored levels (a bin at exactly 80 included): full_bins is
\* the number of Red bins, medium_bins of Yellow bins and empty_bins of Green
\* bins; and the client's getStatusClass puts every level in the tier
\* getBinStatus gives it.
StatsMatchStatus ==
  /\ LastDone("stats") =>
        /\ Last.stats.bins.full_bins =
             Cardinality({b \in BinIds : getBinStatus(level[b]) = "Red"})
        /\ Last.stats.bins.medium_bins =
             Cardinality({b \in BinIds : getBinStatus(level[b]) = "Yellow"})
        /\ Last.stats.bins.empty_bins =
             Cardinality({b \in BinIds : getBinStatus(level[b]) = "Green"})
  /\ \A b \in BinIds : TierOfClass(getStatusClass(level[b])) = getBinStatus(level[b])

\* the counts agree whenever no bin stands at exactly 80, and the client's
\* classes agree on every level
StatsMatchStatusExcept80 ==
  /\ (LastDone("stats") /\ \A b \in BinIds : level[b] # 80) =>
        /\ Last.stats.bins.full_bins =
             Cardinality({b \in BinIds : getBinStatus(level[b]) = "Red"})
        /\ Last.stats.bins.medium_bins =
             Cardinality({b \in BinIds : getBinStatus(level[b]) = "Yellow"})
        /\ Last.stats.bins.empty_bins =
             Cardinality({b \in BinIds : getBinStatus(level[b]) = "Green"})
  /\ \A n \in 0 .. 100 : TierOfClass(getStatusClass(n)) = getBinStatus(n)

\* the stepwise handlers, run one at a time, do what Run says
SerialRunMatches ==
  (Len(req) > 0 /\ Last.pc = "done") => Store = Run(pre, Last)

SeedStore == [level |-> SeedLevel, alerts |-> SeedAlerts, collections |-> SeedCollections]

\* C16: a recordCollection of a positive weight and a resolve of an alert on
\* the same bin, run concurrently from the seed state, end, whatever the
\* interleaving of their store statements, with the bin level and the alerts
\* that one of the two serial orders gives.
SameBinSerializable ==
  (/\ Len(req) = 2 /\ InFlight = {}
   /\ \E w, r \in DOMAIN req :
        /\ req[w].kind = "waste" /\ req[r].kind = "resolve"
        /\ req[w].body.waste_weight.v > 0
        /\ req[r].alertId \in DOMAIN SeedAlerts
        /\ req[w].body.bin_id = SeedAlerts[req[r].alertId].bin_id)
  => \E order \in {<<1, 2>>, <<2, 1>>} :
       LET final == Run(Run(SeedStore, req[order[1]]), req[order[2]])
       IN  level = final.level /\ alerts = final.alerts

\* C17: alerts are permanent and their status is monotone, under any
\* interleaving: no step removes an alert or changes its bin or type, a
\* Resolved alert stays Resolved, and the only step that changes the status
\* of an existing alert is the UPDATE of a resolve naming it, from Pending
\* to Resolved; no step of a recordCollection changes an existing alert.
AlertsMonotone ==
  [][/\ Len(alerts') >= Len(alerts)
     /\ \A k \in DOMAIN alerts :
          /\ alerts'[k].bin_id = alerts[k].bin_id
          /\ alerts'[k].alert_type = alerts[k].alert_type
          /\ alerts[k].status = "Resolved" => alerts'[k].status = "Resolved"
          /\ alerts'[k].status # alerts[k].status =>
               /\ alerts[k].status = "Pending" /\ alerts'[k].status = "Resolved"
               /\ \E i \in DOMAIN req :
                    /\ req[i].kind = "resolve" /\ req[i].pc = "updateAlert"
                    /\ req[i].alertId = k /\ req'[i].pc = "resetBin"]_vars

\* an alert was resolved and a collection has since inserted a new one for
\* the same bin
AlertsMonotoneWitness ==
  \E k, n \in DOMAIN alerts :
    /\ k < n /\ alerts[k].bin_id = alerts[n].bin_id
    /\ alerts[k].status = "Resolved" /\ alerts[n].status = "Pending"
    /\ n \notin DOMAIN SeedAlerts

\* C18: collection events are append-only.  Whatever the request that
\* arrived last has done so far, the events that existed when it arrived are
\* still there, unchanged and in place, and at most one has been added; a
\* POST /waste that answers 200 has added exactly one, carrying the
\* submitted bin, staff and weight; a resolve adds none.
CollectionsAppendOnly ==
  Len(req) > 0 =>
    /\ Len(collections) \in {Len(pre.collections), Len(pre.collections) + 1}
    /\ \A k \in DOMAIN pre.collections : collections[k] = pre.collections[k]
    /\ (LastDone("waste") /\ Last.status = 200) =>
         /\ Len(collections) = Len(pre.collections) + 1
         /\ collections[Len(collections)].bin_id = Last.body.bin_id
         /\ collections[Len(collections)].collected_by = Last.body.collected_by
         /\ collections[Len(collections)].waste_weight = Last.body.waste_weight.v
    /\ Last.kind # "waste" => collections = pre.collections

\* a second collection has answered 200 and both events are stored
CollectionsAppendOnlyWitness ==
  /\ LastDone("waste") /\ Last.status = 200
  /\ Len(collections) = Len(SeedCollections) + 2
  /\ collections[Len(collections)].bin_id = 2
  /\ collections[Len(collections) - 1].bin_id = 1

\* the bin a request is about, in the seed state
OpBin(r) ==
  IF r.kind = "waste" THEN r.body.bin_id ELSE SeedAlerts[r.alertId].bin_id

\* one bin's part of a store: its level, its alerts and its collection
\* events, each in the order of their ids
OfBin(st, b) ==
  LET AlertOfBin(a) == a.bin_id = b
      EventOfBin(c) == c.bin_id = b
  IN  [level |-> st.level[b],
       alerts |-> SelectSeq(st.alerts, AlertOfBin),
       collections |-> SelectSeq(st.collections, EventOfBin)]

\* the requests run alone, one after the other, in the given order
RECURSIVE RunInOrder(_, _, _)
RunInOrder(st, order, n) ==
  IF n = 0 THEN st ELSE Run(RunInOrder(st, order, n - 1), req[order[n]])

Orders == {f \in [DOMAIN req -> DOMAIN req] : \A i, j \in DOMAIN req : f[i] = f[j] => i = j}

OnDistinctBins ==
  /\ Len(req) >= 2 /\ InFlight = {}
  /\ \A i \in DOMAIN req :
       /\ req[i].kind \in {"waste", "resolve"}
       /\ req[i].kind = "resolve" => req[i].alertId \in DOMAIN SeedAlerts
  /\ \A i, j \in DOMAIN req : i # j => OpBin(req[i]) # OpBin(req[j])

\* C19: requests on different bins are independent.  When recordCollection
\* and resolve requests about pairwise different bins have run from the seed
\* state, under any interleaving of their store statements, every bin none
\* of them is about has its seed level and alerts, and every bin has the
\* level, alerts and collection events that the requests give when run one
\* after the other, in any order.
CrossBinIndependent ==
  OnDistinctBins =>
    /\ \A b \in BinIds \ {OpBin(req[i]) : i \in DOMAIN req} :
         OfBin(Store, b) = OfBin(SeedStore, b)
    /\ \A order \in Orders : \A b \in BinIds :
         OfBin(Store, b) = OfBin(RunInOrder(SeedStore, order, Len(req)), b)

\* a collection filling bin 1 and the resolve of bin 2's alert have both
\* answered 200; the resolve arrived between the collection's INSERT and its
\* UPDATE of the level
CrossBinIndependentWitness ==
  /\ OnDistinctBins /\ Len(req) = 2
  /\ req[1].kind = "waste" /\ req[1].body.bin_id = 1 /\ req[1].status = 200
  /\ req[2].kind = "resolve" /\ req[2].alertId = 1 /\ req[2].status = 200
  /\ pre.level[1] = SeedLevel[1]
  /\ Len(pre.collections) = Len(SeedCollections) + 1
  /\ level[1] = 100 /\ level[2] = 0
  /\ Cardinality(PendingOf(alerts, 1, "Full")) = 1

\* the figures of a dashboard response the claim is about
Figures(st) ==
  [full_bins |-> st.bins.full_bins, medium_bins |-> st.bins.medium_bins,
   empty_bins |-> st.bins.empty_bins, total_alerts |-> st.alerts.total_alerts,
   pending_alerts |-> st.alerts.pending_alerts,
   today_collections |-> st.collections.today_collections]

\* C20: the figures of one GET /dashboard/stats response (tier counts,
\* total and pending alerts, today's collections) are together those of one
\* state the store was in at some moment between the request's arrival and
\* its response, also when collections and resolves run in between.
StatsOneState ==
  \A i \in DOMAIN req :
    (/\ req[i].kind = "stats" /\ req[i].pc = "done"
     /\ \A j \in DOMAIN req : req[j].kind = "stats" => j = i)
    => \E st \in seen : Figures(req[i].stats) = Figures(st)

\* C21: whenever no request is in flight and no store statement has thrown,
\* every bin whose level is 80 or above has a Pending "Full" alert.  It holds
\* in the seed state and after every sequence and every interleaving of
\* recordCollection and resolve requests.
FullBinHasPendingAlert ==
  (InFlight = {} /\ \A i \in DOMAIN req : ~req[i].failed)
  => \A b \in BinIds : level[b] >= 80 => PendingOf(alerts, b, "Full") # {}

\* a collection on bin 2 arrived while its seed alert was still Pending, the
\* resolve of that alert ran in between, and the bin ends at 80 or above
\* with the seed alert Resolved and a new alert Pending
FullBinHasPendingAlertWitness ==
  /\ InFlight = {} /\ Len(req) = 2
  /\ req[1].kind = "resolve" /\ req[1].alertId = 1 /\ req[1].status = 200
  /\ req[2].kind = "waste" /\ req[2].body.bin_id = 2 /\ req[2].status = 200
  /\ pre.alerts[1].status = "Pending"
  /\ level[2] >= 80
  /\ alerts[1].status = "Resolved"
  /\ PendingOf(alerts, 2, "Full") # {}

\* the same without the premise on failures: it holds under Spec, and is
\* violated under FaultSpec, where a resolve whose UPDATE of the bin throws
\* leaves the bin full with its alert Resolved
FullBinHasPendingAlertAfterFailure ==
  InFlight = {} => \A b \in BinIds : level[b] >= 80 => PendingOf(alerts, b, "Full") # {}

====
